---------------------------- MODULE Spec2Model ----------------------------
(***************************************************************************)
(* A model of edf_to_csv (src/src/main.rs): the batch loop of main, and    *)
(* parse_edf with its header, channel-table and sample-record decoders,    *)
(* Bounds::scale and increment_timestamp.                                  *)
(*                                                                         *)
(* Files are byte sequences (integers 0..255) read through a cursor, f32   *)
(* values are IEEE-754 binary32 numbers with round-to-nearest-even         *)
(* arithmetic, i16 values are integers in -32768..32767.                   *)
(***************************************************************************)
EXTENDS Integers, Sequences, FiniteSets, TLC

(***************************************************************************)
(* f32: IEEE-754 binary32.  A finite value is (-1)^s * m * 2^e with m = 0  *)
(* (and e = 0) or 2^23 <= m < 2^24; infinities and NaN are tagged.         *)
(* Subnormal results (below 2^-126) are outside the values the decoder     *)
(* can produce from fields of at most 8 decimal digits and are not         *)
(* represented.                                                            *)
(***************************************************************************)
Two23 == 8388608
Two24 == 16777216

RECURSIVE BitLen(_)
BitLen(n) == IF n = 0 THEN 0 ELSE 1 + BitLen(n \div 2)

F32Zero(s) == [k |-> "fin", s |-> s, m |-> 0, e |-> 0]
F32Inf(s) == [k |-> "inf", s |-> s, m |-> 0, e |-> 0]
F32NaN == [k |-> "nan", s |-> 0, m |-> 0, e |-> 0]

IsZero(a) == a.k = "fin" /\ a.m = 0

\* The f32 nearest to (-1)^s * n * 2^e (ties to even), for an integer
\* 0 <= n < 2^31.  When the exact value has bits below n's last one, the
\* caller has or-ed them into that last bit (a sticky bit) and n has at
\* least 26 bits.
RoundPack(s, n, e) ==
    IF n = 0 THEN F32Zero(s)
    ELSE LET len == BitLen(n)
         IN IF len <= 24
            THEN [k |-> "fin", s |-> s, m |-> n * 2^(24 - len), e |-> e - (24 - len)]
            ELSE LET sh == len - 24
                     q == n \div 2^sh
                     r == n % 2^sh
                     half == 2^(sh - 1)
                     up == r > half \/ (r = half /\ q % 2 = 1)
                     q1 == IF up THEN q + 1 ELSE q
                     m1 == IF q1 = Two24 THEN Two23 ELSE q1
                     e1 == IF q1 = Two24 THEN e + sh + 1 ELSE e + sh
                 IN IF e1 > 104 THEN F32Inf(s)
                    ELSE [k |-> "fin", s |-> s, m |-> m1, e |-> e1]

\* n shifted right by d bits, the bits shifted out or-ed into the last bit.
ShiftRightJam(n, d) ==
    IF d = 0 THEN n
    ELSE IF d >= 31 THEN (IF n = 0 THEN 0 ELSE 1)
    ELSE LET q == n \div 2^d
         IN IF n % 2^d # 0 /\ q % 2 = 0 THEN q + 1 ELSE q

F32Neg(a) == IF a.k = "nan" THEN a ELSE [a EXCEPT !.s = 1 - a.s]

\* a + b of two finite values.
AddFin(a, b) ==
    IF IsZero(a) /\ IsZero(b) THEN F32Zero(IF a.s = 1 /\ b.s = 1 THEN 1 ELSE 0)
    ELSE IF IsZero(a) THEN b
    ELSE IF IsZero(b) THEN a
    ELSE LET big == IF a.e > b.e \/ (a.e = b.e /\ a.m >= b.m) THEN a ELSE b
             small == IF a.e > b.e \/ (a.e = b.e /\ a.m >= b.m) THEN b ELSE a
             mb == big.m * 8
             ms == ShiftRightJam(small.m * 8, big.e - small.e)
         IN IF big.s = small.s
            THEN RoundPack(big.s, mb + ms, big.e - 3)
            ELSE IF mb = ms THEN F32Zero(0)
            ELSE RoundPack(big.s, mb - ms, big.e - 3)

F32Add(a, b) ==
    IF a.k = "nan" \/ b.k = "nan" THEN F32NaN
    ELSE IF a.k = "inf" /\ b.k = "inf" THEN (IF a.s = b.s THEN a ELSE F32NaN)
    ELSE IF a.k = "inf" THEN a
    ELSE IF b.k = "inf" THEN b
    ELSE AddFin(a, b)

F32Sub(a, b) == F32Add(a, F32Neg(b))

\* a * b of two finite non-zero values: the 48-bit product of the
\* mantissas from their 12-bit halves, cut to 30 bits with a sticky bit.
MulFin(a, b) ==
    LET ah == a.m \div 4096
        al == a.m % 4096
        bh == b.m \div 4096
        bl == b.m % 4096
        mid == ah * bl + al * bh
        low == (mid % 4096) * 4096 + al * bl
        hi == ah * bh + (mid \div 4096) + (low \div Two24)
        lo == low % Two24
        top == hi * 64 + (lo \div 262144)
        jam == IF lo % 262144 # 0 /\ top % 2 = 0 THEN top + 1 ELSE top
    IN RoundPack((a.s + b.s) % 2, jam, a.e + b.e + 18)

F32Mul(a, b) ==
    IF a.k = "nan" \/ b.k = "nan" THEN F32NaN
    ELSE IF a.k = "inf" \/ b.k = "inf"
         THEN (IF IsZero(a) \/ IsZero(b) THEN F32NaN ELSE F32Inf((a.s + b.s) % 2))
    ELSE IF IsZero(a) \/ IsZero(b) THEN F32Zero((a.s + b.s) % 2)
    ELSE MulFin(a, b)

\* Long division: n more quotient bits of r / d appended to q.
RECURSIVE DivBits(_, _, _, _)
DivBits(q, r, d, n) ==
    IF n = 0 THEN <<q, r>>
    ELSE IF 2 * r >= d THEN DivBits(2 * q + 1, 2 * r - d, d, n - 1)
    ELSE DivBits(2 * q, 2 * r, d, n - 1)

\* a / b of two finite non-zero values: 27 quotient bits and a sticky bit.
DivFin(a, b) ==
    LET qr == DivBits(a.m \div b.m, a.m % b.m, b.m, 26)
        jam == IF qr[2] # 0 /\ qr[1] % 2 = 0 THEN qr[1] + 1 ELSE qr[1]
    IN RoundPack((a.s + b.s) % 2, jam, a.e - b.e - 26)

F32Div(a, b) ==
    IF a.k = "nan" \/ b.k = "nan" THEN F32NaN
    ELSE IF a.k = "inf" THEN (IF b.k = "inf" THEN F32NaN ELSE F32Inf((a.s + b.s) % 2))
    ELSE IF b.k = "inf" THEN F32Zero((a.s + b.s) % 2)
    ELSE IF IsZero(b) THEN (IF IsZero(a) THEN F32NaN ELSE F32Inf((a.s + b.s) % 2))
    ELSE IF IsZero(a) THEN F32Zero((a.s + b.s) % 2)
    ELSE DivFin(a, b)

\* `n as f32` for an integer |n| < 2^31.
F32FromInt(n) == IF n < 0 THEN RoundPack(1, -n, 0) ELSE RoundPack(0, n, 0)

\* The == of f32: NaN equals nothing, the two zeros are equal.
F32Eq(a, b) ==
    /\ a.k # "nan"
    /\ b.k # "nan"
    /\ \/ a = b
       \/ IsZero(a) /\ IsZero(b)

I16Min == -32768
I16Max == 32767

\* `x as i16`: truncation toward zero, saturating, NaN to 0.
F32ToI16(a) ==
    IF a.k = "nan" THEN 0
    ELSE IF a.k = "inf" THEN (IF a.s = 1 THEN I16Min ELSE I16Max)
    ELSE IF a.e >= 0 /\ a.m # 0 THEN (IF a.s = 1 THEN I16Min ELSE I16Max)
    ELSE LET mag == IF a.e <= -24 THEN 0 ELSE a.m \div 2^(0 - a.e)
         IN IF a.s = 1
            THEN (IF mag > 32768 THEN I16Min ELSE 0 - mag)
            ELSE (IF mag > I16Max THEN I16Max ELSE mag)

(***************************************************************************)
(* Text.  A text is a sequence of byte values; the decoder's fields are    *)
(* ASCII.  str::trim and the integer and float parsers of the standard     *)
(* library are modelled on the texts the decoder can meet: digits, signs,  *)
(* white space and other bytes.  A float field is a signed decimal         *)
(* integer; fractions, exponents and the words inf and nan are not drawn   *)
(* as inputs.                                                              *)
(***************************************************************************)
Min(a, b) == IF a < b THEN a ELSE b

IsWs(c) == c \in {9, 10, 11, 12, 13, 32}
IsDigit(c) == c \in 48..57

RECURSIVE TrimStart(_)
TrimStart(t) == IF t # <<>> /\ IsWs(Head(t)) THEN TrimStart(Tail(t)) ELSE t

RECURSIVE TrimEnd(_)
TrimEnd(t) ==
    IF t # <<>> /\ IsWs(t[Len(t)]) THEN TrimEnd(SubSeq(t, 1, Len(t) - 1)) ELSE t

\* str::trim
Trim(t) == TrimEnd(TrimStart(t))

\* read_to_string fails (InvalidData) on bytes that are not UTF-8; of the
\* bytes above 127 only those that never occur in UTF-8 are drawn.
Utf8Ok(t) == \A n \in 1..Len(t) : t[n] < 128

RECURSIVE DigitsValue(_, _)
DigitsValue(t, acc) ==
    IF t = <<>> THEN acc ELSE DigitsValue(Tail(t), 10 * acc + (Head(t) - 48))

AllDigits(t) == t # <<>> /\ \A n \in 1..Len(t) : IsDigit(t[n])

\* str::parse for an integer type with values lo..hi: an optional sign
\* ('-' only for a signed type) and at least one digit, at most 8 here.
ParseInt(t, lo, hi) ==
    LET signed == lo < 0
        neg == t # <<>> /\ t[1] = 45 /\ signed
        body == IF t # <<>> /\ (t[1] = 43 \/ neg) THEN Tail(t) ELSE t
        v == IF neg THEN 0 - DigitsValue(body, 0) ELSE DigitsValue(body, 0)
    IN IF AllDigits(body) /\ v >= lo /\ v <= hi
       THEN [ok |-> TRUE, v |-> v]
       ELSE [ok |-> FALSE, v |-> 0]

I8Min == -128
I8Max == 127

\* str::parse::<f32> on a signed decimal integer of at most 8 characters.
ParseF32(t) ==
    LET neg == t # <<>> /\ t[1] = 45
        body == IF t # <<>> /\ (t[1] = 43 \/ neg) THEN Tail(t) ELSE t
    IN IF AllDigits(body)
       THEN [ok |-> TRUE, v |-> RoundPack(IF neg THEN 1 ELSE 0, DigitsValue(body, 0), 0)]
       ELSE [ok |-> FALSE, v |-> F32NaN]

(***************************************************************************)
(* The cursor: BufReader<File> at byte offset pos of the file's bytes.     *)
(* seek_relative moves the offset and does not fail past the end of a      *)
(* file; take(k).read_to_string reads the bytes that are left, at most k,  *)
(* and does not fail on fewer.                                             *)
(***************************************************************************)
Take(bytes, pos, k) ==
    IF pos >= Len(bytes) THEN <<>> ELSE SubSeq(bytes, pos + 1, Min(pos + k, Len(bytes)))

(***************************************************************************)
(* Calendar (the datetime crate): days of the civil calendar, checked      *)
(* dates and times, and the instant in seconds since 1970-01-01.           *)
(***************************************************************************)
IsLeap(y) == (y % 4 = 0 /\ y % 100 # 0) \/ y % 400 = 0

DaysInMonth(y, m) ==
    IF m = 2 THEN (IF IsLeap(y) THEN 29 ELSE 28)
    ELSE IF m \in {4, 6, 9, 11} THEN 30 ELSE 31

\* LocalDate::ymd after Month::from_one
DateOk(y, m, d) == m \in 1..12 /\ d >= 1 /\ d <= DaysInMonth(y, m)

\* LocalTime::hms
TimeOk(h, mi, s) == h \in 0..23 /\ mi \in 0..59 /\ s \in 0..59

DaysFromCivil(y, m, d) ==
    LET y1 == IF m <= 2 THEN y - 1 ELSE y
        era == y1 \div 400
        yoe == y1 - era * 400
        mp == IF m > 2 THEN m - 3 ELSE m + 9
        doy == (153 * mp + 2) \div 5 + d - 1
        doe == yoe * 365 + yoe \div 4 - yoe \div 100 + doy
    IN era * 146097 + doe - 719468

CivilFromDays(z) ==
    LET z1 == z + 719468
        era == z1 \div 146097
        doe == z1 - era * 146097
        yoe == (doe - doe \div 1460 + doe \div 36524 - doe \div 146096) \div 365
        doy == doe - (365 * yoe + yoe \div 4 - yoe \div 100)
        mp == (5 * doy + 2) \div 153
        d == doy - (153 * mp + 2) \div 5 + 1
        m == IF mp < 10 THEN mp + 3 ELSE mp - 9
        y == yoe + era * 400
    IN <<IF m <= 2 THEN y + 1 ELSE y, m, d>>

\* LocalDateTime::new(date, time).to_instant()
ToInstant(y, m, d, h, mi, s) ==
    [seconds |-> DaysFromCivil(y, m, d) * 86400 + h * 3600 + mi * 60 + s,
     milliseconds |-> 0]

\* LocalDateTime::from_instant(t).iso().to_string(): the text
\* YYYY-MM-DDThh:mm:ss.mmm, kept as its seven numbers.
IsoText(t) ==
    LET days == t.seconds \div 86400
        sod == t.seconds % 86400
        ymd == CivilFromDays(days)
    IN <<ymd[1], ymd[2], ymd[3], sod \div 3600, (sod % 3600) \div 60, sod % 60,
         t.milliseconds>>

(***************************************************************************)
(* The decoders.  Each returns the error kind of its first failing `?`     *)
(* ("none" when it succeeds), the cursor and what it decoded.              *)
(***************************************************************************)
Max8Digits == 99999999

\* Bounds::scale with the physical minimum left out of the sum.
ScaleNoOffset(bounds, value) ==
    IF value = I16Min THEN [some |-> FALSE, v |-> F32NaN]
    ELSE LET val == F32FromInt(value)
             digital_range == F32Sub(bounds.digital_max, bounds.digital_min)
             physical_range == F32Sub(bounds.physical_max, bounds.physical_min)
         IN [some |-> TRUE,
             v |-> F32Div(F32Mul(F32Sub(val, bounds.digital_min), physical_range),
                          digital_range)]

\* Bounds::scale
Scale(bounds, value) ==
    IF value = I16Min THEN [some |-> FALSE, v |-> F32NaN]
    ELSE LET val == F32FromInt(value)
             digital_range == F32Sub(bounds.digital_max, bounds.digital_min)
             physical_range == F32Sub(bounds.physical_max, bounds.physical_min)
         IN [some |-> TRUE,
             v |-> F32Add(F32Div(F32Mul(F32Sub(val, bounds.digital_min), physical_range),
                                 digital_range),
                          bounds.physical_min)]

GetStartDate(bytes, pos) ==
    LET p1 == pos + 168
        day_string == Take(bytes, p1, 2)
        day == ParseInt(day_string, I8Min, I8Max)
        p2 == p1 + Len(day_string) + 1
        month_string == Take(bytes, p2, 2)
        month == ParseInt(month_string, I8Min, I8Max)
        p3 == p2 + Len(month_string) + 1
        year_string == Take(bytes, p3, 2)
        yy == ParseInt(year_string, 0 - Max8Digits, Max8Digits)
        year == 2000 + yy.v
        err == IF ~Utf8Ok(day_string) THEN "Io"
               ELSE IF ~day.ok THEN "ParseInt"
               ELSE IF ~Utf8Ok(month_string) THEN "Io"
               ELSE IF ~month.ok THEN "ParseInt"
               ELSE IF month.v \notin 1..12 THEN "Datetime"
               ELSE IF ~Utf8Ok(year_string) THEN "Io"
               ELSE IF ~yy.ok THEN "ParseInt"
               ELSE IF ~DateOk(year, month.v, day.v) THEN "Datetime"
               ELSE "none"
    IN [err |-> err, pos |-> p3 + Len(year_string),
        year |-> year, month |-> month.v, day |-> day.v]

GetStartTime(bytes, pos) ==
    LET hour_string == Take(bytes, pos, 2)
        hour == ParseInt(hour_string, I8Min, I8Max)
        p2 == pos + Len(hour_string) + 1
        minute_string == Take(bytes, p2, 2)
        minute == ParseInt(minute_string, I8Min, I8Max)
        p3 == p2 + Len(minute_string) + 1
        second_string == Take(bytes, p3, 2)
        second == ParseInt(second_string, I8Min, I8Max)
        err == IF ~Utf8Ok(hour_string) THEN "Io"
               ELSE IF ~hour.ok THEN "ParseInt"
               ELSE IF ~Utf8Ok(minute_string) THEN "Io"
               ELSE IF ~minute.ok THEN "ParseInt"
               ELSE IF ~Utf8Ok(second_string) THEN "Io"
               ELSE IF ~second.ok THEN "ParseInt"
               ELSE IF ~TimeOk(hour.v, minute.v, second.v) THEN "Datetime"
               ELSE "none"
    IN [err |-> err, pos |-> p3 + Len(second_string),
        hour |-> hour.v, minute |-> minute.v, second |-> second.v]

\* One space-padded count field of `width` bytes after `skip` skipped
\* bytes: get_num_records (52, 8), get_record_duration (0, 8),
\* get_num_signals (0, 4).
GetCount(bytes, pos, skip, width) ==
    LET text == Take(bytes, pos + skip, width)
        n == ParseInt(Trim(text), 0, Max8Digits)
        err == IF ~Utf8Ok(text) THEN "Io"
               ELSE IF ~n.ok THEN "ParseInt"
               ELSE "none"
    IN [err |-> err, pos |-> pos + skip + Len(text), v |-> n.v]

GetNumRecords(bytes, pos) == GetCount(bytes, pos, 52, 8)
GetRecordDuration(bytes, pos) == GetCount(bytes, pos, 0, 8)
GetNumSignals(bytes, pos) == GetCount(bytes, pos, 0, 4)

header_signal_bytes == <<16, 80, 8, 8, 8, 8, 8, 80, 8, 32>>
skip_indices == {1, 7, 9}

\* The read loop of get_signals reading channel after channel: step t
\* reads slot t % 10 for channel t \div 10.
RECURSIVE ReadSlotsChannelMajor(_, _, _, _, _)
ReadSlotsChannelMajor(bytes, pos, t, n, cols) ==
    IF t >= 10 * n THEN [err |-> "none", pos |-> pos, cols |-> cols]
    ELSE LET i == t % 10
             c == (t \div 10) + 1
             width == header_signal_bytes[i + 1]
         IN IF i \in skip_indices
            THEN ReadSlotsChannelMajor(bytes, pos + width, t + 1, n, cols)
            ELSE LET buf == Take(bytes, pos, width)
                 IN IF ~Utf8Ok(buf)
                    THEN [err |-> "Io", pos |-> pos + Len(buf), cols |-> cols]
                    ELSE ReadSlotsChannelMajor(bytes, pos + Len(buf), t + 1, n,
                                               [cols EXCEPT ![c] = Append(@, Trim(buf))])

\* The read loop of get_signals from its step t on: step t reads slot
\* t \div n for channel t % n.  cols[c] is what channel c has pushed so far.
RECURSIVE ReadSlots(_, _, _, _, _)
ReadSlots(bytes, pos, t, n, cols) ==
    IF t >= 10 * n THEN [err |-> "none", pos |-> pos, cols |-> cols]
    ELSE LET i == t \div n
             c == (t % n) + 1
             width == header_signal_bytes[i + 1]
         IN IF i \in skip_indices
            THEN ReadSlots(bytes, pos + width, t + 1, n, cols)
            ELSE LET buf == Take(bytes, pos, width)
                 IN IF ~Utf8Ok(buf)
                    THEN [err |-> "Io", pos |-> pos + Len(buf), cols |-> cols]
                    ELSE ReadSlots(bytes, pos + Len(buf), t + 1, n,
                                   [cols EXCEPT ![c] = Append(@, Trim(buf))])

\* One channel's strings turned into a Signal.
ToSignal(s) ==
    LET num_samples == ParseInt(s[7], 0, Max8Digits)
        physical_min == ParseF32(s[3])
        physical_max == ParseF32(s[4])
        digital_min == ParseF32(s[5])
        digital_max == ParseF32(s[6])
        err == IF ~num_samples.ok THEN "ParseInt"
               ELSE IF ~(physical_min.ok /\ physical_max.ok
                         /\ digital_min.ok /\ digital_max.ok) THEN "ParseFloat"
               ELSE "none"
    IN [err |-> err,
        signal |-> [label |-> s[1], dimension |-> s[2],
                    bounds |-> [digital_min |-> digital_min.v,
                                digital_max |-> digital_max.v,
                                physical_min |-> physical_min.v,
                                physical_max |-> physical_max.v],
                    num_samples |-> num_samples.v]]

\* The error of the first channel that fails to parse, "none" without one.
RECURSIVE FirstErr(_, _)
FirstErr(sigs, k) ==
    IF k > Len(sigs) THEN "none"
    ELSE IF sigs[k].err # "none" THEN sigs[k].err
    ELSE FirstErr(sigs, k + 1)

GetSignals(bytes, pos, num_signals) ==
    LET read == ReadSlots(bytes, pos, 0, num_signals, [c \in 1..num_signals |-> <<>>])
        sigs == [c \in 1..num_signals |-> ToSignal(read.cols[c])]
        err == IF read.err # "none" THEN read.err ELSE FirstErr(sigs, 1)
    IN [err |-> err, pos |-> read.pos,
        signals |-> IF err = "none" THEN [c \in 1..num_signals |-> sigs[c].signal]
                    ELSE <<>>]

\* read_i16::<LittleEndian> of two bytes
Le16(b0, b1) ==
    LET u == b0 + 256 * b1
    IN IF u >= 32768 THEN u - 65536 ELSE u

\* read_record_samples: read_exact fails (UnexpectedEof) when fewer than
\* two bytes are left for a sample.
ReadRecordSamples(bytes, pos, num_signals, num_samples) ==
    LET capacity == num_signals * num_samples
    IN IF pos + 2 * capacity <= Len(bytes)
       THEN [err |-> "none", pos |-> pos + 2 * capacity,
             values |-> [k \in 1..capacity |->
                            Le16(bytes[pos + 2 * k - 1], bytes[pos + 2 * k])]]
       ELSE [err |-> "Io", pos |-> pos, values |-> <<>>]

\* increment_timestamp whose result is dropped by the caller.
IncrementDropped(timestamp, interval) == timestamp

\* increment_timestamp without the carry.
IncrementNoCarry(timestamp, interval) ==
    [seconds |-> timestamp.seconds + interval.seconds,
     milliseconds |-> timestamp.milliseconds + interval.milliseconds]

\* Instant + Duration of the datetime crate adds field by field; the
\* function carries the milliseconds over.
IncrementTimestamp(timestamp, interval) ==
    LET seconds == timestamp.seconds + interval.seconds
        milliseconds == timestamp.milliseconds + interval.milliseconds
    IN IF milliseconds >= 1000
       THEN [seconds |-> seconds + milliseconds \div 1000,
             milliseconds |-> milliseconds % 1000]
       ELSE [seconds |-> seconds, milliseconds |-> milliseconds]

\* interval_ms with the duration and the samples per record swapped.
IntervalMsSwapped(record_duration, num_samples) ==
    F32ToI16(F32Div(F32Mul(F32FromInt(1000), F32FromInt(num_samples)),
                    F32FromInt(record_duration)))

\* interval_ms: f32 arithmetic cast to i16
IntervalMs(record_duration, num_samples) ==
    F32ToI16(F32Div(F32Mul(F32FromInt(1000), F32FromInt(record_duration)),
                    F32FromInt(num_samples)))

\* sample_interval: Duration::of_ms(interval_ms / 1000, interval_ms % 1000)
SampleInterval(interval_ms) ==
    [seconds |-> interval_ms \div 1000, milliseconds |-> interval_ms % 1000]

\* A scaled value as a CSV field: its text, or the empty field for None.
CleanedVal(scaled) == IF scaled.some THEN <<scaled.v>> ELSE <<>>

\* The data row read from the raw buffer as if it were sample-major.
DataRowInterleaved(timestamp, signals, values, num_samples, i) ==
    <<IsoText(timestamp)>> \o
    [j \in 1..Len(signals) |->
        CleanedVal(Scale(signals[j].bounds, values[i * Len(signals) + (j - 1) + 1]))]

\* The fields of the data row of sample i (from 0) of a record: the
\* timestamp, then each channel's scaled value as text.  The decimal text
\* of an f32 is never empty; it is kept as the value it prints.
DataRow(timestamp, signals, values, num_samples, i) ==
    <<IsoText(timestamp)>> \o
    [j \in 1..Len(signals) |->
        CleanedVal(Scale(signals[j].bounds, values[i + (j - 1) * num_samples + 1]))]

(***************************************************************************)
(* Input files.  An EDF file is a 256-byte header (the start date at byte  *)
(* 168, the start time at 176, the record count at 236, the record         *)
(* duration at 244, the channel count at 252), the field-major channel     *)
(* table and the records of little-endian samples.  Numbers are left-      *)
(* justified and padded with spaces.                                       *)
(***************************************************************************)
MaxFiles == 2
MaxChannels == 2
MaxRecords == 2

Spaces(k) == [x \in 1..k |-> 32]
Pad(t, w) == t \o Spaces(w - Len(t))

RECURSIVE Dec(_)
Dec(n) == IF n < 10 THEN <<48 + n>> ELSE Dec(n \div 10) \o <<48 + (n % 10)>>

SDec(n) == IF n < 0 THEN <<45>> \o Dec(0 - n) ELSE Dec(n)

TwoDigits(n) == <<48 + n \div 10, 48 + (n % 10)>>

RECURSIVE Flatten(_)
Flatten(ss) == IF ss = <<>> THEN <<>> ELSE Head(ss) \o Flatten(Tail(ss))

HeaderBytes(p) ==
    Spaces(168)
    \o TwoDigits(p.day) \o <<46>> \o TwoDigits(p.month) \o <<46>> \o TwoDigits(p.year)
    \o TwoDigits(p.hour) \o <<46>> \o TwoDigits(p.minute) \o <<46>> \o TwoDigits(p.second)
    \o Spaces(52)
    \o Pad(p.num_records, 8) \o Pad(p.record_duration, 8) \o Pad(p.num_signals, 4)

\* The channel table of the channels chans: slot after slot, each slot
\* for every channel.  A channel is its ten fields as texts.
TableBytes(chans) ==
    Flatten([t \in 1..(10 * Len(chans)) |->
                LET slot == (t - 1) \div Len(chans) + 1
                    c == ((t - 1) % Len(chans)) + 1
                IN Pad(chans[c][slot], header_signal_bytes[slot])])

SampleBytes(v) ==
    LET u == IF v < 0 THEN v + 65536 ELSE v
    IN <<u % 256, u \div 256>>

RecordBytes(samples) == Flatten([k \in 1..Len(samples) |-> SampleBytes(samples[k])])

EdfBytes(p) == HeaderBytes(p) \o TableBytes(p.chans) \o RecordBytes(p.samples)

\* Calibration bounds as written in a file: digital minimum and maximum,
\* physical minimum and maximum.
BoundsTable ==
    << <<-32768, 32767, -200, 200>>,
       <<-100, 100, -5, 5>>,
       <<0, 32767, -500, 13>>,
       <<100, 100, 0, 1>> >>

\* Raw samples, taken in turn.
SamplePool == <<0, 16384, -32768, 100, 32767, -100>>

\* Record durations and samples per record.
DurationSamples ==
    {<<0, 2>>, <<1, 0>>, <<1, 1>>, <<1, 2>>, <<1, 4>>, <<2, 3>>, <<33, 1>>}

\* The ten fields of channel c (from 1): label, transducer, unit, physical
\* minimum and maximum, digital minimum and maximum, prefiltering, samples
\* per record, reserved.
Channel(c, bnd, ns) ==
    LET b == BoundsTable[((bnd + c - 2) % Len(BoundsTable)) + 1]
    IN <<<<67, 72, 48 + c>>, <<65, 103>>, <<117, 86>>, SDec(b[3]), SDec(b[4]),
         SDec(b[1]), SDec(b[2]), <<72, 80>>, Dec(ns), <<>>>>

Sum(f) ==
    LET RECURSIVE S(_)
        S(k) == IF k = 0 THEN 0 ELSE f[k] + S(k - 1)
    IN S(Len(f))

\* The parameters of a file with record duration d, the samples per
\* record nsv of its channels, r records, bounds from entry bnd of the
\* table on and samples from entry smp of the pool on.
Params(d, nsv, r, bnd, smp) ==
    [day |-> 31, month |-> 12, year |-> 24, hour |-> 23, minute |-> 59, second |-> 59,
     num_records |-> Dec(r), record_duration |-> Dec(d), num_signals |-> Dec(Len(nsv)),
     chans |-> [c \in 1..Len(nsv) |-> Channel(c, bnd, nsv[c])],
     samples |-> [g \in 1..(r * Sum(nsv)) |->
                     SamplePool[((g - 1 + smp) % Len(SamplePool)) + 1]]]

\* A file of the batch.  kind records how the input was made: "whole" (a
\* well-formed file), "table" (a whole file whose channels may disagree),
\* "broken" (one field does not decode) or "cut" (cut off before its end).
File(name, kind, readable, bytes) ==
    [name |-> name, kind |-> kind, readable |-> readable, bytes |-> bytes]

\* Well-formed files: every duration, channel count, record count, bounds
\* and sample choice.
DataFiles ==
    {File("a", "whole", TRUE,
          EdfBytes(Params(dn[1], [c \in 1..n |-> dn[2]], r, bnd, smp))) :
        dn \in DurationSamples, n \in 0..MaxChannels, r \in 0..MaxRecords,
        bnd \in 1..Len(BoundsTable), smp \in {0, 2, 4}}

\* A well-formed file without records whose duration and samples per
\* record are large numbers.
LongFiles == {File("a", "whole", TRUE, EdfBytes(Params(5103588, <<2551794>>, 0, 1, 0)))}

\* Channel tables whose channels declare 1 or 2 samples per record each.
TableFiles ==
    UNION {{File("a", "table", TRUE, EdfBytes(Params(1, nsv, 1, 1, 0))) :
               nsv \in [1..n -> {1, 2}]} : n \in 0..MaxChannels}

BaseParams == Params(1, <<2>>, 1, 1, 0)

\* Files with one field that does not decode, and a file that cannot be
\* opened.
BrokenFiles ==
    {File("a", "broken", TRUE, EdfBytes(p)) :
        p \in {[BaseParams EXCEPT !.month = 13],
               [BaseParams EXCEPT !.hour = 24],
               [BaseParams EXCEPT !.num_records = <<110>>],
               [BaseParams EXCEPT !.record_duration = <<45, 49>>],
               [BaseParams EXCEPT !.num_signals = <<>>],
               [BaseParams EXCEPT !.chans[1][5] = <<110, 111>>],
               [BaseParams EXCEPT !.chans[1][9] = <<50, 32, 53>>],
               [BaseParams EXCEPT !.chans[1][1] = <<67, 255>>]}}
    \cup {File("a", "broken", TRUE, [EdfBytes(BaseParams) EXCEPT ![169] = 255]),
          File("a", "broken", FALSE, EdfBytes(BaseParams))}

\* Well-formed files cut off at every byte offset before their end.
CutFiles ==
    UNION {LET whole == EdfBytes(Params(1, [c \in 1..n |-> 2], MaxRecords, 1, 0))
           IN {File("a", "cut", TRUE, SubSeq(whole, 1, cut)) : cut \in 0..(Len(whole) - 1)} :
           n \in 1..MaxChannels}

\* The files of the batches of several files: a file that converts, one
\* that declares no channels, one whose channels disagree, one cut off in
\* its header, one that cannot be opened.
BatchFiles ==
    {File("a", "whole", TRUE, EdfBytes(Params(1, <<1>>, 1, 2, 0))),
     File("a", "whole", TRUE, EdfBytes(Params(1, <<>>, 1, 1, 0))),
     File("a", "table", TRUE, EdfBytes(Params(1, <<1, 2>>, 1, 1, 0))),
     File("a", "cut", TRUE, SubSeq(EdfBytes(BaseParams), 1, 100)),
     File("a", "broken", FALSE, EdfBytes(BaseParams))}

Batches ==
    UNION {{[k \in 1..len |-> [content[k] EXCEPT !.name = names[k]]] :
               names \in [1..len -> {"a", "b"}], content \in [1..len -> BatchFiles]} :
           len \in {0} \cup 2..MaxFiles}

(***************************************************************************)
(* The program: main's loop over edf_file_paths, and parse_edf in steps.   *)
(***************************************************************************)
VARIABLES
    files,            \* edf_file_paths and the bytes of each file
    idx,              \* the file the loop of main is at (from 1)
    pc,               \* where the program is
    pos,              \* reader's offset
    timestamp,        \* parse_edf's locals ...
    num_records,
    record_duration,
    num_signals,
    signals,
    num_samples,
    sample_interval,
    rec,              \* the record loop's counter
    smp,              \* the sample loop's i
    values,
    ext,              \* file_path's extension
    result,           \* what parse_edf returned
    outputs,          \* the files of target_dir: name -> rows written
    log               \* the lines of status.txt

vars == <<files, idx, pc, pos, timestamp, num_records, record_duration, num_signals,
          signals, num_samples, sample_interval, rec, smp, values, ext, result,
          outputs, log>>

locals == <<timestamp, num_records, record_duration, num_signals, signals,
            num_samples, sample_interval, rec, smp, values>>

Instant0 == [seconds |-> 0, milliseconds |-> 0]

Init ==
    /\ files \in {<<f>> : f \in DataFiles \cup LongFiles \cup TableFiles
                                   \cup BrokenFiles \cup CutFiles}
                 \cup Batches
    /\ idx = 1
    /\ pc = "main"
    /\ pos = 0
    /\ timestamp = Instant0
    /\ num_records = 0
    /\ record_duration = 0
    /\ num_signals = 0
    /\ signals = <<>>
    /\ num_samples = 0
    /\ sample_interval = Instant0
    /\ rec = 0
    /\ smp = 0
    /\ values = <<>>
    /\ ext = "edf"
    /\ result = "none"
    /\ outputs = <<>>
    /\ log = <<>>

bytes == files[idx].bytes

\* parse_edf returns Err(kind)
Fail(kind) ==
    /\ result' = kind
    /\ pc' = "log"

\* main: the next file_path of the loop; parse_edf opens it.
StartFile ==
    /\ pc = "main"
    /\ idx <= Len(files)
    /\ pos' = 0
    /\ timestamp' = Instant0
    /\ num_records' = 0
    /\ record_duration' = 0
    /\ num_signals' = 0
    /\ signals' = <<>>
    /\ num_samples' = 0
    /\ sample_interval' = Instant0
    /\ rec' = 0
    /\ smp' = 0
    /\ values' = <<>>
    /\ ext' = "edf"
    /\ IF files[idx].readable
       THEN result' = "none" /\ pc' = "header"
       ELSE Fail("Io")
    /\ UNCHANGED <<files, idx, outputs, log>>

\* main: the loop is over.
Exit ==
    /\ pc = "main"
    /\ idx > Len(files)
    /\ pc' = "exit"
    /\ UNCHANGED <<files, idx, pos, locals, ext, result, outputs, log>>

\* parse_edf: the start date and time and the three counts.
DecodeHeader ==
    /\ pc = "header"
    /\ LET date == GetStartDate(bytes, pos)
           time == GetStartTime(bytes, date.pos)
           nr == GetNumRecords(bytes, time.pos)
           rd == GetRecordDuration(bytes, nr.pos)
           ns == GetNumSignals(bytes, rd.pos)
           err == IF date.err # "none" THEN date.err
                  ELSE IF time.err # "none" THEN time.err
                  ELSE IF nr.err # "none" THEN nr.err
                  ELSE IF rd.err # "none" THEN rd.err
                  ELSE ns.err
       IN IF err # "none"
          THEN /\ Fail(err)
               /\ UNCHANGED <<pos, timestamp, num_records, record_duration, num_signals>>
          ELSE /\ timestamp' = ToInstant(date.year, date.month, date.day,
                                         time.hour, time.minute, time.second)
               /\ num_records' = nr.v
               /\ record_duration' = rd.v
               /\ num_signals' = ns.v
               /\ pos' = ns.pos
               /\ pc' = "signals"
               /\ UNCHANGED result
    /\ UNCHANGED <<files, idx, signals, num_samples, sample_interval, rec, smp, values,
                   ext, outputs, log>>

\* parse_edf: get_signals
DecodeSignals ==
    /\ pc = "signals"
    /\ LET got == GetSignals(bytes, pos, num_signals)
       IN IF got.err # "none"
          THEN /\ Fail(got.err)
               /\ UNCHANGED <<pos, signals>>
          ELSE /\ signals' = got.signals
               /\ pos' = got.pos
               /\ pc' = "validate"
               /\ UNCHANGED result
    /\ UNCHANGED <<files, idx, timestamp, num_records, record_duration, num_signals,
                   num_samples, sample_interval, rec, smp, values, ext, outputs, log>>

HeaderRow(sigs) == <<"timestamp">> \o [c \in 1..Len(sigs) |-> sigs[c].label]
UnitRow(sigs) == <<"YYYY-MM-DD hh:mm:ss">> \o [c \in 1..Len(sigs) |-> sigs[c].dimension]

\* the file `name` of target_dir holding `rows`
Written(name, rows) ==
    [n \in DOMAIN outputs \cup {name} |-> IF n = name THEN rows ELSE outputs[n]]

\* all channels have the first channel's samples per record
SameSamples(sigs) == \A c \in 2..Len(sigs) : sigs[c].num_samples = sigs[1].num_samples

\* parse_edf with the output file created before the check of the samples
\* per record.
ValidateAfterCreate ==
    /\ pc = "validate"
    /\ IF Len(signals) = 0
       THEN /\ pc' = "panic"
            /\ UNCHANGED <<num_samples, sample_interval, result, outputs>>
       ELSE IF ~SameSamples(signals)
       THEN /\ Fail("MismatchedSignals")
            /\ num_samples' = signals[1].num_samples
            /\ outputs' = Written(files[idx].name, <<>>)
            /\ UNCHANGED sample_interval
       ELSE /\ num_samples' = signals[1].num_samples
            /\ sample_interval' =
                   SampleInterval(IntervalMs(record_duration, signals[1].num_samples))
            /\ pc' = "create"
            /\ UNCHANGED <<result, outputs>>
    /\ UNCHANGED <<files, idx, pos, timestamp, num_records, record_duration, num_signals,
                   signals, rec, smp, values, ext, log>>

\* parse_edf: signals[0] (which panics on an empty vector), the check of
\* the samples per record, and the sample interval.
Validate ==
    /\ pc = "validate"
    /\ IF Len(signals) = 0
       THEN /\ pc' = "panic"
            /\ UNCHANGED <<num_samples, sample_interval, result>>
       ELSE IF ~SameSamples(signals)
       THEN /\ Fail("MismatchedSignals")
            /\ num_samples' = signals[1].num_samples
            /\ UNCHANGED sample_interval
       ELSE /\ num_samples' = signals[1].num_samples
            /\ sample_interval' =
                   SampleInterval(IntervalMs(record_duration, signals[1].num_samples))
            /\ pc' = "create"
            /\ UNCHANGED result
    /\ UNCHANGED <<files, idx, pos, timestamp, num_records, record_duration, num_signals,
                   signals, rec, smp, values, ext, outputs, log>>

\* parse_edf: set_extension, Writer::from_path and the two heading rows.
\* The file system may refuse the file, or the rows.
CreateOutput ==
    /\ pc = "create"
    /\ ext' = "csv"
    /\ \/ /\ outputs' = Written(files[idx].name, <<HeaderRow(signals), UnitRow(signals)>>)
          /\ rec' = 0
          /\ pc' = "record"
          /\ UNCHANGED result
       \/ /\ Fail("Csv")
          /\ UNCHANGED <<outputs, rec>>
       \/ /\ Fail("Csv")
          /\ outputs' = Written(files[idx].name, <<>>)
          /\ UNCHANGED rec
    /\ UNCHANGED <<files, idx, pos, timestamp, num_records, record_duration, num_signals,
                   signals, num_samples, sample_interval, smp, values, log>>

\* parse_edf: the head of the record loop, and read_record_samples.
ReadRecord ==
    /\ pc = "record"
    /\ IF rec >= num_records
       THEN /\ result' = "Ok"
            /\ pc' = "log"
            /\ UNCHANGED <<pos, values, rec, smp>>
       ELSE LET got == ReadRecordSamples(bytes, pos, num_signals, num_samples)
            IN IF got.err # "none"
               THEN /\ Fail(got.err)
                    /\ UNCHANGED <<pos, values, rec, smp>>
               ELSE /\ values' = got.values
                    /\ pos' = got.pos
                    /\ smp' = 0
                    /\ rec' = IF num_samples = 0 THEN rec + 1 ELSE rec
                    /\ pc' = IF num_samples = 0 THEN "record" ELSE "row"
                    /\ UNCHANGED result
    /\ UNCHANGED <<files, idx, timestamp, num_records, record_duration, num_signals,
                   signals, num_samples, sample_interval, ext, outputs, log>>

\* parse_edf: one pass of the sample loop: the row of sample smp is
\* written and the timestamp incremented.  The file system may refuse
\* the row.
WriteRow ==
    /\ pc = "row"
    /\ \/ /\ outputs' = Written(files[idx].name,
                                Append(outputs[files[idx].name],
                                       DataRow(timestamp, signals, values, num_samples, smp)))
          /\ timestamp' = IncrementTimestamp(timestamp, sample_interval)
          /\ smp' = smp + 1
          /\ rec' = IF smp + 1 = num_samples THEN rec + 1 ELSE rec
          /\ pc' = IF smp + 1 = num_samples THEN "record" ELSE "row"
          /\ UNCHANGED result
       \/ /\ Fail("Csv")
          /\ UNCHANGED <<outputs, timestamp, smp, rec>>
    /\ UNCHANGED <<files, idx, pos, num_records, record_duration, num_signals, signals,
                   num_samples, sample_interval, values, ext, log>>

\* The Display of EdfError
Message(kind) ==
    CASE kind = "Ok" -> "File parsed successfully!"
      [] kind = "Csv" -> "Can't perform csv operation."
      [] kind = "ParseFloat" -> "Can't parse value to float."
      [] kind = "ParseInt" -> "Can't parse value to int."
      [] kind = "Io" -> "Can't perform I/O operation."
      [] kind = "Datetime" -> "Can't parse datetime."
      [] kind = "MismatchedSignals" -> "Number of signals in each sample don't match!"

\* main: the status line of the file (without its time of day), and on
\* to the next file.
LogStatus ==
    /\ pc = "log"
    /\ log' = Append(log, [name |-> files[idx].name, ext |-> ext, msg |-> Message(result)])
    /\ idx' = idx + 1
    /\ pc' = "main"
    /\ UNCHANGED <<files, pos, locals, ext, result, outputs>>

Next ==
    \/ StartFile
    \/ Exit
    \/ DecodeHeader
    \/ DecodeSignals
    \/ Validate
    \/ CreateOutput
    \/ ReadRecord
    \/ WriteRow
    \/ LogStatus

Spec == Init /\ [][Next]_vars


(***************************************************************************)
(* The properties.  They read the file's bytes themselves, by offset.      *)
(***************************************************************************)
\* the output file of the file being converted
Out == outputs[files[idx].name]

\* the data rows written for the file being converted while it is in its
\* record and sample loops
RowsDone == IF pc = "row" THEN rec * num_samples + smp ELSE rec * num_samples

InLoops == pc \in {"record", "row"}

\* the raw sample at flat offset k of record r (both from 0)
RawAt(r, k) ==
    LET at == 256 * (num_signals + 1) + 2 * (r * num_signals * num_samples + k)
    IN Le16(bytes[at + 1], bytes[at + 2])

\* field j of data row q (from 0) and the raw sample it is derived from
FieldOf(q, j) == Out[3 + q][j + 1]
RawOf(q, j) == RawAt(q \div num_samples, (q % num_samples) + (j - 1) * num_samples)

\* C1: in the record and sample loops of parse_edf the output holds its two
\* heading rows and one data row per (record, sample) pair done so far, in
\* that order; field j of the row of (r, i) is the scaled text of the raw
\* sample at flat offset i + j * samples_per_record of record r under
\* channel j's bounds, and it is empty exactly when that sample is -32768.
C1_RowsFromSamples ==
    InLoops =>
        /\ Len(Out) = 2 + RowsDone
        /\ \A q \in 0..(RowsDone - 1) :
              /\ Len(Out[3 + q]) = 1 + num_signals
              /\ \A j \in 1..num_signals :
                    /\ FieldOf(q, j) = CleanedVal(Scale(signals[j].bounds, RawOf(q, j)))
                    /\ (FieldOf(q, j) = <<>>) <=> (RawOf(q, j) = I16Min)

\* C1 witness: two records of two channels with two samples each are
\* written, with a missing value and a scaled one among the fields.
C1_Witness ==
    /\ pc = "record"
    /\ rec = 2
    /\ num_signals = 2
    /\ num_samples = 2
    /\ Len(Out) = 6
    /\ \E q \in 0..3, j \in 1..2 : FieldOf(q, j) = <<>>
    /\ \E q \in 0..3, j \in 1..2 : FieldOf(q, j) # <<>>

\* the program has stopped
Stopped == pc \in {"exit", "panic"}

\* C2: when the program stops, every file of the batch has its status
\* line, in the order of the batch.
C2_EveryFileLogged ==
    Stopped =>
        /\ Len(log) = Len(files)
        /\ \A k \in 1..Len(files) : log[k].name = files[k].name

\* C3: the conversion of a file cut off before its end fails with the I/O
\* error kind (or with the file system's refusal of the output), never
\* with a parse error and never with success.
C3_CutFileFailsWithIo ==
    (pc = "log" /\ files[idx].kind = "cut") => result \in {"Io", "Csv"}

\* C4: the validation step of parse_edf fails with MismatchedSignals if
\* and only if a channel's samples per record differ from the first
\* channel's, and goes on without failure when all channels agree.
C4_MismatchIffDiffer ==
    [][pc = "validate" =>
          LET differ == \E c \in 1..Len(signals) :
                            signals[c].num_samples # signals[1].num_samples
          IN /\ (pc' = "log" /\ result' = "MismatchedSignals") <=> differ
             /\ ~differ => pc' = "create"]_vars

\* a field holds the text of the value x
HoldsValue(field, x) == field # <<>> /\ F32Eq(field[1], x)

\* the integer an integer-valued finite f32 stands for
F32Int(a) ==
    LET mag == IF a.e >= 0 THEN a.m * 2^a.e ELSE a.m \div 2^(0 - a.e)
    IN IF a.s = 1 THEN 0 - mag ELSE mag

\* the integer v is an f32 value
IsF32(v) == F32Int(F32FromInt(v)) = v

\* the digital range, the physical range and their product are f32 values
ExactRanges(b) ==
    LET dr == F32Int(b.digital_max) - F32Int(b.digital_min)
        pr == F32Int(b.physical_max) - F32Int(b.physical_min)
    IN IsF32(dr) /\ IsF32(pr) /\ IsF32(dr * pr)

\* C5 as claimed: whenever the bounds of a channel have digital_max #
\* digital_min, a raw sample equal to digital_min is written as
\* physical_min and one equal to digital_max as physical_max.
C5_EndpointsAsClaimed ==
    InLoops =>
        \A q \in 0..(RowsDone - 1) : \A j \in 1..num_signals :
            LET b == signals[j].bounds
                raw == F32FromInt(RawOf(q, j))
            IN ~F32Eq(b.digital_max, b.digital_min) =>
                  /\ F32Eq(raw, b.digital_min) => HoldsValue(FieldOf(q, j), b.physical_min)
                  /\ F32Eq(raw, b.digital_max) => HoldsValue(FieldOf(q, j), b.physical_max)

\* C5 as amended: the raw sample -32768 has no value, also when it is
\* digital_min or digital_max; any other raw sample equal to digital_min is
\* written as physical_min, and one equal to digital_max as physical_max
\* when the digital range, the physical range and their product are f32
\* values (bounds with digital_max # digital_min).
C5_EndpointsButSentinel ==
    InLoops =>
        \A q \in 0..(RowsDone - 1) : \A j \in 1..num_signals :
            LET b == signals[j].bounds
                raw == F32FromInt(RawOf(q, j))
            IN /\ RawOf(q, j) = I16Min => FieldOf(q, j) = <<>>
               /\ (RawOf(q, j) # I16Min /\ ~F32Eq(b.digital_max, b.digital_min)) =>
                     /\ F32Eq(raw, b.digital_min) =>
                           HoldsValue(FieldOf(q, j), b.physical_min)
                     /\ (F32Eq(raw, b.digital_max) /\ ExactRanges(b)) =>
                           HoldsValue(FieldOf(q, j), b.physical_max)

\* C5 witness: one written field is physical_min for a raw digital_min,
\* another is physical_max for a raw digital_max, a third is empty for a
\* digital_min of -32768.
C5_Witness ==
    /\ InLoops
    /\ \E q \in 0..(RowsDone - 1), j \in 1..num_signals :
          /\ RawOf(q, j) # I16Min
          /\ ~F32Eq(signals[j].bounds.digital_max, signals[j].bounds.digital_min)
          /\ F32Eq(F32FromInt(RawOf(q, j)), signals[j].bounds.digital_min)
          /\ HoldsValue(FieldOf(q, j), signals[j].bounds.physical_min)
    /\ \E q \in 0..(RowsDone - 1), j \in 1..num_signals :
          /\ ExactRanges(signals[j].bounds)
          /\ ~F32Eq(signals[j].bounds.digital_max, signals[j].bounds.digital_min)
          /\ F32Eq(F32FromInt(RawOf(q, j)), signals[j].bounds.digital_max)
          /\ HoldsValue(FieldOf(q, j), signals[j].bounds.physical_max)
    /\ \E q \in 0..(RowsDone - 1), j \in 1..num_signals :
          /\ RawOf(q, j) = I16Min
          /\ F32Eq(F32FromInt(I16Min), signals[j].bounds.digital_min)
          /\ FieldOf(q, j) = <<>>

\* the two digits at bytes at, at + 1 (from 1) of the header
TwoAt(at) == (bytes[at] - 48) * 10 + (bytes[at + 1] - 48)

\* the start date and time written in the header, as the numbers of an
\* ISO text
StartFields ==
    <<2000 + TwoAt(175), TwoAt(172), TwoAt(169), TwoAt(177), TwoAt(180), TwoAt(183), 0>>

StartInstant ==
    ToInstant(2000 + TwoAt(175), TwoAt(172), TwoAt(169), TwoAt(177), TwoAt(180), TwoAt(183))

\* the order of ISO texts
RECURSIVE LexLess(_, _)
LexLess(a, b) ==
    /\ a # <<>>
    /\ \/ Head(a) < Head(b)
       \/ Head(a) = Head(b) /\ LexLess(Tail(a), Tail(b))

RowTime(q) == Out[3 + q][1]

\* C6 as claimed: the first data row carries the start instant of the
\* header and the instants of successive data rows are strictly increasing.
C6_StrictlyIncreasing ==
    InLoops =>
        /\ RowsDone >= 1 => RowTime(0) = StartFields
        /\ \A q \in 0..(RowsDone - 2) : LexLess(RowTime(q), RowTime(q + 1))

\* C6 as amended: the first data row carries the start instant of the
\* header; the instants of successive data rows are strictly increasing
\* when the sample interval is at least 1 ms, and all equal when it is 0
\* (a record duration of 0, or more samples per record than 1000 times the
\* duration).
C6_IncreasingByInterval ==
    InLoops =>
        /\ RowsDone >= 1 => RowTime(0) = StartFields
        /\ \A q \in 0..(RowsDone - 2) :
              IF sample_interval.seconds = 0 /\ sample_interval.milliseconds = 0
              THEN RowTime(q) = RowTime(q + 1)
              ELSE LexLess(RowTime(q), RowTime(q + 1))

\* C6 witness: three data rows with increasing instants, the first the
\* start of the header.
C6_Witness ==
    /\ InLoops
    /\ RowsDone >= 3
    /\ RowTime(0) = StartFields
    /\ LexLess(RowTime(0), RowTime(1))
    /\ LexLess(RowTime(1), RowTime(2))

RECURSIVE Gcd(_, _)
Gcd(a, b) == IF b = 0 THEN a ELSE Gcd(b, a % b)

\* n divides 1000 * d, and the quotient
Divides1000(d, n) == d % (n \div Gcd(n, 1000)) = 0
Quotient1000(d, n) == (1000 \div Gcd(n, 1000)) * (d \div (n \div Gcd(n, 1000)))

\* the interval is q milliseconds, and after each record the instant is
\* the start plus the record durations
IntervalIs(q) ==
    /\ sample_interval = [seconds |-> q \div 1000, milliseconds |-> q % 1000]
    /\ pc = "record" =>
          timestamp = [seconds |-> StartInstant.seconds + rec * record_duration,
                       milliseconds |-> 0]

\* C7 as claimed: for a record duration d >= 1 and n >= 1 samples per
\* record with n dividing 1000 * d, the interval is 1000 * d / n ms split
\* into seconds and milliseconds, and the n increments of a record advance
\* the instant by d seconds.
C7_IntervalExact ==
    (pc \in {"create", "record", "row"} /\ record_duration >= 1 /\ num_samples >= 1
        /\ Divides1000(record_duration, num_samples))
    => IntervalIs(Quotient1000(record_duration, num_samples))

\* C7 as amended: the same, for 1000 * d / n <= 32767 (the interval fits
\* the i16 it is cast to) and 1000 * d <= 2^24 (the f32 product and
\* quotient are exact).
C7_IntervalExactInRange ==
    (pc \in {"create", "record", "row"} /\ record_duration >= 1 /\ num_samples >= 1
        /\ Divides1000(record_duration, num_samples)
        /\ Quotient1000(record_duration, num_samples) <= I16Max
        /\ record_duration <= Two24 \div 1000)
    => IntervalIs(Quotient1000(record_duration, num_samples))

\* C7 witness: a record of 1 second with 4 samples is done, 250 ms apart,
\* and the instant is 1 second after the start.
C7_Witness ==
    /\ pc = "record"
    /\ rec = 1
    /\ record_duration = 1
    /\ num_samples = 4
    /\ sample_interval = [seconds |-> 0, milliseconds |-> 250]
    /\ timestamp = [seconds |-> StartInstant.seconds + 1, milliseconds |-> 0]

\* C8: after every increment the milliseconds of the instant are in
\* 0..999 and the time elapsed since the start is the sum of the intervals
\* added (what exceeds 999 ms is carried into the seconds).
C8_Normalized ==
    InLoops =>
        /\ timestamp.milliseconds \in 0..999
        /\ (timestamp.seconds - StartInstant.seconds) * 1000 + timestamp.milliseconds
              = RowsDone * (sample_interval.seconds * 1000 + sample_interval.milliseconds)

\* C8 witness: the milliseconds have been carried into the seconds.
C8_Witness ==
    /\ InLoops
    /\ RowsDone >= 1
    /\ sample_interval.milliseconds > 0
    /\ timestamp.seconds - StartInstant.seconds > RowsDone * sample_interval.seconds
    /\ timestamp.milliseconds \in 0..999

\* the bytes before slot i (from 0) of the channel table, per channel
RECURSIVE SlotOffset(_)
SlotOffset(i) == IF i = 0 THEN 0 ELSE SlotOffset(i - 1) + header_signal_bytes[i]

\* slot i (from 0) of channel k (from 1), trimmed
SlotText(i, k) ==
    Trim(Take(bytes, 256 + num_signals * SlotOffset(i) + (k - 1) * header_signal_bytes[i + 1],
              header_signal_bytes[i + 1]))

\* C9: get_signals on a channel table that is there in full leaves the
\* cursor at byte 256 * (N + 1) and returns the N channels in order,
\* channel k with slot 0 as its label, slot 2 as its unit, slots 3 to 6 as
\* physical minimum and maximum and digital minimum and maximum and slot 8
\* as its samples per record, each slot holding its N fields one after the
\* other; the table of a well-formed file decodes.
C9_FieldMajorTable ==
    /\ (pc = "validate" /\ Len(bytes) >= 256 * (num_signals + 1)) =>
          /\ pos = 256 * (num_signals + 1)
          /\ Len(signals) = num_signals
          /\ \A k \in 1..num_signals :
                /\ signals[k].label = SlotText(0, k)
                /\ signals[k].dimension = SlotText(2, k)
                /\ signals[k].bounds.physical_min = ParseF32(SlotText(3, k)).v
                /\ signals[k].bounds.physical_max = ParseF32(SlotText(4, k)).v
                /\ signals[k].bounds.digital_min = ParseF32(SlotText(5, k)).v
                /\ signals[k].bounds.digital_max = ParseF32(SlotText(6, k)).v
                /\ signals[k].num_samples = ParseInt(SlotText(8, k), 0, Max8Digits).v
    /\ (pc = "log" /\ files[idx].kind = "whole") => result \in {"Ok", "Csv"}

\* C9 witness: two channels with different labels and bounds are decoded
\* from a table that is there in full.
C9_Witness ==
    /\ pc = "validate"
    /\ num_signals = 2
    /\ Len(bytes) >= 768
    /\ pos = 768
    /\ signals[1].label = <<67, 72, 49>>
    /\ signals[2].label = <<67, 72, 50>>
    /\ signals[1].bounds # signals[2].bounds

\* C10: no step of parse_edf before the validation has passed creates,
\* truncates or writes a file of the output directory: the outputs change
\* only at the creation of the output and in the sample loop, and the
\* creation is reached only from a validation of at least one channel whose
\* channels all agree.
C10_OutputAfterValidation ==
    [][/\ outputs' # outputs => pc \in {"create", "row"}
       /\ pc' = "create" =>
             /\ pc = "validate"
             /\ Len(signals) >= 1
             /\ \A c \in 1..Len(signals) : signals[c].num_samples = signals[1].num_samples
       /\ (pc' = "log" /\ result' \in {"ParseInt", "ParseFloat", "Datetime",
                                       "MismatchedSignals"}) => outputs' = outputs]_vars

\* C10 witness: the second file of a batch has failed its validation and
\* the output of the first file, of the same name, is as it was written.
C10_Witness ==
    /\ idx = 2
    /\ pc = "log"
    /\ result = "MismatchedSignals"
    /\ files[1].name = files[2].name
    /\ DOMAIN outputs = {files[1].name}
    /\ Len(outputs[files[1].name]) = 3
=============================================================================
